---- MODULE Spec2Model ----
(***************************************************************************)
(* TaskMaster backend: the real-time presence and event fan-out service    *)
(* (src/src/services/websocket.ts), the HTTP request authenticator it      *)
(* shares credentials with (src/src/routes/attachments.ts, middleware/auth *)
(* part) and the callers of the dispatcher.                                *)
(*                                                                         *)
(* Node runs every handler to completion; the only suspension point of the *)
(* service is the `await prisma.user.findUnique` of the handshake           *)
(* middleware, so the middleware is two steps and every other handler one.  *)
(***************************************************************************)
EXTENDS Integers, Sequences, FiniteSets, TLC

\* ---------------------------------------------------------------- bounds
MaxSockets == 2
MaxScans == 2

SocketIds == 1..MaxSockets

\* ------------------------------------------------------------- the world
\* rows of the user table (prisma.user)
ExistingUsers == {"u1", "u2"}
\* payload objects handed to the dispatcher
Payloads == {"a"}
\* JavaScript `undefined` for string-valued slots
Undefined == "undefined"

Truthy(v) == v \notin {Undefined, ""}

\* Bearer credentials a client can present.  The name tells the claims the
\* token was signed with; "" is the empty string.
Tokens == {"tok_userId_u1", "tok_userId_u2", "tok_id_u1", "tok_both_u1",
           "tok_userId_u3", "tok_expired_u1", "garbage"}

\* jwt.verify(token, JWT_SECRET): throws (ok = FALSE) unless the signature
\* and the expiry check out, else returns the signed claims.
JwtVerify(token) ==
  CASE token = "tok_userId_u1" -> [ok |-> TRUE, id |-> Undefined, userId |-> "u1"]
    [] token = "tok_userId_u2" -> [ok |-> TRUE, id |-> Undefined, userId |-> "u2"]
    [] token = "tok_id_u1"     -> [ok |-> TRUE, id |-> "u1", userId |-> Undefined]
    [] token = "tok_both_u1"   -> [ok |-> TRUE, id |-> "u1", userId |-> "u1"]
    [] token = "tok_userId_u3" -> [ok |-> TRUE, id |-> Undefined, userId |-> "u3"]
    [] OTHER                   -> [ok |-> FALSE, id |-> Undefined, userId |-> Undefined]

\* prisma.user.findUnique({ where: { id } }): rejects on a data-store fault
\* and on a missing (undefined) unique argument, else the row or null.
FindUnique(id, fault) ==
  IF fault \/ id = Undefined THEN "error"
  ELSE IF id \in ExistingUsers THEN "found" ELSE "null"

\* A handshake: the auth field and the authorization header, the header as
\* its space-separated parts (<<>> when the header is absent).
NoHandshake == [auth |-> "", header |-> <<>>]

\* socket.handshake.auth.token || socket.handshake.headers.authorization?.split(' ')[1]
WsToken(hs) ==
  IF Truthy(hs.auth) THEN hs.auth
  ELSE IF Len(hs.header) >= 2 THEN hs.header[2] ELSE Undefined

ErrNoToken == "Authentication error: No token provided"
ErrNoUser == "Authentication error: User not found"
ErrInvalid == "Authentication error: Invalid token"

\* the event names of the dispatcher, by topic family
TaskEvents == {"task:created", "task:updated", "task:deleted", "tasks:bulk_updated"}
CategoryEvents == {"category:created", "category:updated", "category:deleted"}
NotificationEvents == {"notification"}

\* ----------------------------------------------------------------- state
VARIABLES
  handshake,       \* socket -> the handshake it presented
  pc,              \* socket -> position of the middleware: idle, await, done
  decoded,         \* socket -> decoded.userId while the lookup is pending
  dbFault,         \* socket -> the user lookup failed transiently
  userId,          \* socket.userId
  nextCalls,       \* socket -> the arguments next was called with, in order
  conn,            \* socket -> none, open (connection handler ran), closed
  connectedUsers,  \* Map<userId, Set<socketId>>
  rooms,           \* the adapter's room membership, pairs <<room, socketId>>
  sent,            \* live socket -> how often its client sent each subscribe
                   \* message (0, 1, or 2 for more than once)
  delivered,       \* the dispatcher call of the latest step, if it was one, and
                   \* the number of packets it wrote to each socket
  httpRes,         \* outcome of the latest HTTP request through authenticate
  broken,          \* live sockets whose transport has failed while the close
                   \* has not been observed yet: a write to them is lost
  route,           \* the mutation request handled by the latest step, if it
                   \* was one: its response and its dispatcher calls
  cleanup,         \* the disconnect cleanup the latest step ran for a socket
                   \* that was not registered, if it was one
  proc,            \* the host process: running, stopping, exited
  inserted,        \* the notification row the latest step stored, if any
  taskNotifications, \* the notification table, its rows that relate to a
                   \* task: type -> task -> number of rows (2 for more)
  scans            \* the invocations of checkDueTasks: where each stands and
                   \* the tasks its loop has still to notify

vars == <<handshake, pc, decoded, dbFault, userId, nextCalls, conn,
          connectedUsers, rooms, sent, delivered, httpRes,
          broken, route, cleanup, proc, inserted, taskNotifications, scans>>

wsVars == <<conn, connectedUsers, rooms, sent>>
mwVars == <<handshake, pc, decoded, dbFault, userId, nextCalls>>

ClientMessages == {"subscribe:tasks", "subscribe:categories"}

\* the latest step handled no mutation request
NoRoute == [op |-> "", userId |-> Undefined, ok |-> FALSE, status |-> 0, calls |-> <<>>]
\* the latest step ran no cleanup for an unregistered socket
NoCleanup == [userId |-> Undefined, socketId |-> 0]

\* handlers run as long as the host process has not exited
Alive == proc # "exited"

\* the step is a handler that is neither a mutation request nor such a
\* cleanup, and the host process goes on as it is
\* no notification row
NoRow == ""

\* the tasks of the task table with a due date, none completed: those due
\* within 24 hours and those overdue, and their owners
DueSoon == {"t1", "t2"}
Overdue == {"t3"}
Tasks == DueSoon \cup Overdue
TaskOrder == <<"t1", "t2", "t3">>
Owner(task) == IF task = "t2" THEN "u2" ELSE "u1"
DueTypes == {"TASK_DUE", "TASK_OVERDUE"}

ScanIds == 1..MaxScans
NoScan == [pc |-> "idle", todo |-> <<>>]

\* the step stores no notification and moves no invocation of checkDueTasks
NoInsert == inserted' = NoRow /\ UNCHANGED <<taskNotifications, scans>>

NoRequest ==
  /\ Alive
  /\ route' = NoRoute /\ cleanup' = NoCleanup /\ UNCHANGED proc
  /\ NoInsert

\* ------------------------------------------------------------- registry
\* new Map()
EmptyMap == [k \in {} |-> {}]

\* variant: the user's set is replaced on every connect
RegistryAddOverwrite(reg, uid, sid) ==
  [k \in DOMAIN reg \cup {uid} |-> IF k = uid THEN {sid} ELSE reg[k]]

\* variant: the socket is added only when the user has no entry yet
RegistryAddOnlyFirst(reg, uid, sid) ==
  IF uid \in DOMAIN reg THEN reg ELSE reg @@ (uid :> {sid})

\* connectedUsers.has / set(new Set()) / get(...).add(socket.id)
RegistryAdd(reg, uid, sid) ==
  LET r1 == IF uid \in DOMAIN reg THEN reg ELSE reg @@ (uid :> {})
  IN [r1 EXCEPT ![uid] = @ \cup {sid}]

\* variant: the emptied set is left in the map
RegistryRemoveKeepEntry(reg, uid, sid) ==
  IF uid \notin DOMAIN reg THEN reg
  ELSE [reg EXCEPT ![uid] = @ \ {sid}]

\* variant: the user's entry is deleted whatever is left in the set
RegistryRemoveDropUser(reg, uid, sid) ==
  IF uid \notin DOMAIN reg THEN reg
  ELSE [k \in DOMAIN reg \ {uid} |-> reg[k]]

\* variant: the entry is deleted when the set has one id, taken to be the
\* socket's own
RegistryRemoveAssumeMember(reg, uid, sid) ==
  IF uid \notin DOMAIN reg THEN reg
  ELSE IF Cardinality(reg[uid]) <= 1
       THEN [k \in DOMAIN reg \ {uid} |-> reg[k]]
       ELSE [reg EXCEPT ![uid] = @ \ {sid}]

\* userSockets.delete(socket.id); if size === 0 then connectedUsers.delete
RegistryRemove(reg, uid, sid) ==
  IF uid \notin DOMAIN reg THEN reg
  ELSE LET r1 == [reg EXCEPT ![uid] = @ \ {sid}]
       IN IF Cardinality(r1[uid]) = 0
          THEN [k \in DOMAIN r1 \ {uid} |-> r1[k]]
          ELSE r1

isUserConnected(uid) == uid \in DOMAIN connectedUsers

getConnectedUsersCount == Cardinality(DOMAIN connectedUsers)

\* ---------------------------------------------------------------- rooms
\* variant: the room name leaves the user identifier out
TopicNameShared(prefix, uid) == <<prefix, "">>

\* `${prefix}:${userId}`
TopicName(prefix, uid) == <<prefix, uid>>

\* variant: joining a room the socket is already in leaves it
JoinToggle(rms, sid, room) ==
  IF <<room, sid>> \in rms THEN rms \ {<<room, sid>>} ELSE rms \cup {<<room, sid>>}

\* socket.join(room): the adapter keeps a Set of socket ids per room
Join(rms, sid, room) == rms \cup {<<room, sid>>}

\* variant: only the personal room is left
LeaveOnlyPersonal(rms, sid) == {m \in rms : m[2] # sid \/ m[1][1] # "user"}

\* socket.io leaves every room of a socket when it closes
LeaveAll(rms, sid) == {m \in rms : m[2] # sid}

Members(rms, room) == {s \in SocketIds : <<room, s>> \in rms}

\* variant: the packet goes to one member of the room only
DeliverToOne(rms, room) ==
  IF Members(rms, room) = {} THEN {}
  ELSE {CHOOSE s \in Members(rms, room) : TRUE}

\* io.to(room).emit(...): the sockets the packet is written to
Deliver(rms, room) == Members(rms, room)

RoomsOf(rms, sid) == {m[1] : m \in {x \in rms : x[2] = sid}}

\* the latest step was no dispatcher call
NoDelivery ==
  [event |-> "", userId |-> Undefined, arg |-> "",
   payload |-> [shape |-> "raw", val |-> ""],
   writes |-> [s \in SocketIds |-> 0], threw |-> FALSE]

\* variant: a deletion carries the bare identifier
WireBareId(event, arg) == [shape |-> "raw", val |-> arg]

\* what goes on the wire: deletions wrap the id, every other event is raw
Wire(event, arg) ==
  IF event \in {"task:deleted", "category:deleted"}
  THEN [shape |-> "id", val |-> arg]
  ELSE [shape |-> "raw", val |-> arg]

Init ==
  /\ handshake = [s \in SocketIds |-> NoHandshake]
  /\ pc = [s \in SocketIds |-> "idle"]
  /\ decoded = [s \in SocketIds |-> Undefined]
  /\ dbFault = [s \in SocketIds |-> FALSE]
  /\ userId = [s \in SocketIds |-> Undefined]
  /\ nextCalls = [s \in SocketIds |-> <<>>]
  /\ conn = [s \in SocketIds |-> "none"]
  /\ connectedUsers = EmptyMap
  /\ rooms = {}
  /\ sent = [s \in SocketIds |-> [m \in ClientMessages |-> 0]]
  /\ delivered = NoDelivery
  /\ httpRes = [token |-> Undefined, status |-> 0, user |-> Undefined]
  /\ broken = {}
  /\ route = NoRoute
  /\ cleanup = NoCleanup
  /\ proc = "running"
  /\ inserted = NoRow
  /\ taskNotifications = [ty \in DueTypes |-> [task \in Tasks |-> 0]]
  /\ scans = [i \in ScanIds |-> NoScan]

\* ------------------------------------------------- handshake middleware
\* io.use callback up to the await: the token, the missing-token refusal and
\* jwt.verify (whose exception the catch block turns into a refusal).
BeforeLookup(hs) ==
  LET token == WsToken(hs)
      d == JwtVerify(token)
  IN IF ~Truthy(token)
     THEN [calls |-> <<ErrNoToken>>, lookup |-> FALSE, decoded |-> Undefined]
     ELSE IF ~d.ok
     THEN [calls |-> <<ErrInvalid>>, lookup |-> FALSE, decoded |-> Undefined]
     ELSE [calls |-> <<>>, lookup |-> TRUE, decoded |-> d.userId]

\* variant: the refusal of an unknown user does not return
AfterLookupFallThrough(outcome, uid) ==
  IF outcome = "error" THEN [calls |-> <<ErrInvalid>>, userId |-> Undefined]
  ELSE IF outcome = "null" THEN [calls |-> <<ErrNoUser, "ok">>, userId |-> uid]
  ELSE [calls |-> <<"ok">>, userId |-> uid]

\* variant: the rejection of the lookup is not caught
AfterLookupUncaught(outcome, uid) ==
  IF outcome = "error" THEN [calls |-> <<>>, userId |-> Undefined]
  ELSE IF outcome = "null" THEN [calls |-> <<ErrNoUser>>, userId |-> Undefined]
  ELSE [calls |-> <<"ok">>, userId |-> uid]

\* io.use callback after the await: outcome is what findUnique settled with.
AfterLookup(outcome, uid) ==
  IF outcome = "error" THEN [calls |-> <<ErrInvalid>>, userId |-> Undefined]
  ELSE IF outcome = "null" THEN [calls |-> <<ErrNoUser>>, userId |-> Undefined]
  ELSE [calls |-> <<"ok">>, userId |-> uid]

\* the lowest socket slot not used yet takes the next handshake
NextSocket(s) == pc[s] = "idle" /\ \A t \in SocketIds : t < s => pc[t] # "idle"

Handshake(s, hs) ==
  /\ NextSocket(s)
  /\ LET r == BeforeLookup(hs)
     IN /\ handshake' = [handshake EXCEPT ![s] = hs]
        /\ nextCalls' = [nextCalls EXCEPT ![s] = @ \o r.calls]
        /\ decoded' = [decoded EXCEPT ![s] = r.decoded]
        /\ pc' = [pc EXCEPT ![s] = IF r.lookup THEN "await" ELSE "done"]
  /\ UNCHANGED <<dbFault, userId, httpRes>>
  /\ delivered' = NoDelivery
  /\ NoRequest
  /\ UNCHANGED broken
  /\ UNCHANGED wsVars

LookupReturn(s, fault) ==
  /\ pc[s] = "await"
  /\ LET r == AfterLookup(FindUnique(decoded[s], fault), decoded[s])
     IN /\ nextCalls' = [nextCalls EXCEPT ![s] = @ \o r.calls]
        /\ userId' = [userId EXCEPT ![s] = r.userId]
  /\ dbFault' = [dbFault EXCEPT ![s] = fault]
  /\ pc' = [pc EXCEPT ![s] = "done"]
  /\ UNCHANGED <<handshake, decoded, httpRes>>
  /\ delivered' = NoDelivery
  /\ NoRequest
  /\ UNCHANGED broken
  /\ UNCHANGED wsVars

\* socket.io completes the handshake for every error-free next
Admitted(s) == \E i \in 1..Len(nextCalls[s]) : nextCalls[s][i] = "ok"
Refused(s) == \E i \in 1..Len(nextCalls[s]) : nextCalls[s][i] # "ok"

\* ---------------------------------------------------- connection events
\* variant: the personal room is not joined
ConnectionWithoutJoin(s) ==
  /\ pc[s] = "done"
  /\ conn[s] = "none"
  /\ Admitted(s)
  /\ conn' = [conn EXCEPT ![s] = "open"]
  /\ IF Truthy(userId[s])
     THEN connectedUsers' = RegistryAdd(connectedUsers, userId[s], s)
     ELSE UNCHANGED connectedUsers
  /\ delivered' = NoDelivery
  /\ NoRequest
  /\ UNCHANGED broken
  /\ UNCHANGED <<rooms, sent, httpRes>>
  /\ UNCHANGED mwVars

\* io.on('connection', ...)
Connection(s) ==
  /\ pc[s] = "done"
  /\ conn[s] = "none"
  /\ Admitted(s)
  /\ conn' = [conn EXCEPT ![s] = "open"]
  /\ IF Truthy(userId[s])
     THEN /\ connectedUsers' = RegistryAdd(connectedUsers, userId[s], s)
          /\ rooms' = Join(rooms, s, TopicName("user", userId[s]))
     ELSE UNCHANGED <<connectedUsers, rooms>>
  /\ delivered' = NoDelivery
  /\ NoRequest
  /\ UNCHANGED broken
  /\ UNCHANGED <<sent, httpRes>>
  /\ UNCHANGED mwVars

\* variant: the client names the user whose topic it joins
SubscribeNamedUser(s, msg, prefix) ==
  /\ conn[s] = "open"
  /\ sent' = [sent EXCEPT ![s][msg] = IF @ < 2 THEN @ + 1 ELSE @]
  /\ \E u \in ExistingUsers : rooms' = Join(rooms, s, TopicName(prefix, u))
  /\ delivered' = NoDelivery
  /\ NoRequest
  /\ UNCHANGED broken
  /\ UNCHANGED <<conn, connectedUsers, httpRes>>
  /\ UNCHANGED mwVars

\* variant: a join replays the event last sent to the room to the joiner
SubscribeWithReplay(s, msg, prefix) ==
  /\ conn[s] = "open"
  /\ sent' = [sent EXCEPT ![s][msg] = IF @ < 2 THEN @ + 1 ELSE @]
  /\ rooms' = Join(rooms, s, TopicName(prefix, userId[s]))
  /\ delivered' =
       IF delivered.event \in (IF prefix = "tasks" THEN TaskEvents ELSE CategoryEvents)
            /\ delivered.userId = userId[s]
       THEN [delivered EXCEPT !.writes = [t \in SocketIds |-> IF t = s THEN 1 ELSE 0]]
       ELSE NoDelivery
  /\ NoRequest
  /\ UNCHANGED broken
  /\ UNCHANGED <<conn, connectedUsers, httpRes>>
  /\ UNCHANGED mwVars

Subscribe(s, msg, prefix) ==
  /\ conn[s] = "open"
  /\ sent' = [sent EXCEPT ![s][msg] = IF @ < 2 THEN @ + 1 ELSE @]
  /\ IF Truthy(userId[s])
     THEN rooms' = Join(rooms, s, TopicName(prefix, userId[s]))
     ELSE UNCHANGED rooms
  /\ delivered' = NoDelivery
  /\ NoRequest
  /\ UNCHANGED broken
  /\ UNCHANGED <<conn, connectedUsers, httpRes>>
  /\ UNCHANGED mwVars

\* socket.on('subscribe:tasks', ...)
SubscribeTasks(s) == Subscribe(s, "subscribe:tasks", "tasks")

\* socket.on('subscribe:categories', ...)
SubscribeCategories(s) == Subscribe(s, "subscribe:categories", "categories")

\* socket.on('disconnect', ...), run by socket.io after it left every room
Disconnect(s) ==
  /\ conn[s] = "open"
  /\ conn' = [conn EXCEPT ![s] = "closed"]
  /\ rooms' = LeaveAll(rooms, s)
  /\ IF Truthy(userId[s])
     THEN connectedUsers' = RegistryRemove(connectedUsers, userId[s], s)
     ELSE UNCHANGED connectedUsers
  /\ sent' = [sent EXCEPT ![s] = [m \in ClientMessages |-> 0]]
  /\ broken' = broken \ {s}
  /\ delivered' = NoDelivery
  /\ NoRequest
  /\ UNCHANGED httpRes
  /\ UNCHANGED mwVars

\* ------------------------------------------------------------ dispatcher
\* variant: the loop over the room stops at the first socket whose write
\* fails and the failure is thrown to the caller
BroadcastAbortOnFailure(to) ==
  [written |-> {s \in to : \A b \in to \cap broken : s < b},
   threw |-> to \cap broken # {}]

\* the adapter's broadcast: the packet is written to every socket of the room
\* in turn; a write to a socket whose transport has failed is dropped, the
\* failure surfaces later as that socket's close, and nothing is thrown
Broadcast(to) == [written |-> to \ broken, threw |-> FALSE]

\* this.io.to(`${prefix}:${userId}`).emit(event, payload): one packet is
\* written to every socket the broadcast reaches
Emit(prefix, uid, event, arg) ==
  LET b == Broadcast(Deliver(rooms, TopicName(prefix, uid)))
  IN delivered' = [event |-> event, userId |-> uid, arg |-> arg,
                   payload |-> Wire(event, arg),
                   writes |-> [s \in SocketIds |-> IF s \in b.written THEN 1 ELSE 0],
                   threw |-> b.threw]

\* a dispatcher method called by a caller that is not modelled further
Call(method) ==
  /\ method
  /\ delivered' # delivered
  /\ NoRequest
  /\ UNCHANGED <<conn, connectedUsers, rooms, sent, httpRes, broken>>
  /\ UNCHANGED mwVars

\* variant: the task event is sent to the personal room
emitTaskCreatedToUserRoom(uid, task) == Emit("user", uid, "task:created", task)

emitTaskCreated(uid, task) == Emit("tasks", uid, "task:created", task)
emitTaskUpdated(uid, task) == Emit("tasks", uid, "task:updated", task)
emitTaskDeleted(uid, taskId) == Emit("tasks", uid, "task:deleted", taskId)
emitTaskBulkUpdate(uid, tasks) == Emit("tasks", uid, "tasks:bulk_updated", tasks)
emitCategoryCreated(uid, category) == Emit("categories", uid, "category:created", category)
emitCategoryUpdated(uid, category) == Emit("categories", uid, "category:updated", category)
emitCategoryDeleted(uid, categoryId) == Emit("categories", uid, "category:deleted", categoryId)
emitNotification(uid, notification) == Emit("user", uid, "notification", notification)

\* ------------------------------------------------- HTTP authenticate
\* authHeader.startsWith('Bearer ') and authHeader.substring(7)
HttpToken(header) ==
  IF Len(header) >= 2 /\ header[1] = "Bearer" THEN header[2] ELSE Undefined

\* authenticate(req, res, next): 200 stands for next() with req.user set
Authenticate(header, fault) ==
  LET token == HttpToken(header)
      d == JwtVerify(token)
      found == FindUnique(d.id, fault)
  IN IF Len(header) < 2 \/ header[1] # "Bearer"
     THEN [token |-> token, status |-> 401, user |-> Undefined]
     ELSE IF ~d.ok \/ found # "found"
     THEN [token |-> token, status |-> 401, user |-> Undefined]
     ELSE [token |-> token, status |-> 200, user |-> d.id]

HttpRequest(header, fault) ==
  /\ httpRes' = Authenticate(header, fault)
  /\ httpRes' # httpRes
  /\ UNCHANGED mwVars
  /\ delivered' = NoDelivery
  /\ NoRequest
  /\ UNCHANGED broken
  /\ UNCHANGED wsVars

\* ------------------------------------------------- transport failure
\* the transport of a live socket fails (the peer is gone); the server
\* observes it later, as the socket's close
TransportFail(s) ==
  /\ conn[s] = "open"
  /\ s \notin broken
  /\ broken' = broken \cup {s}
  /\ delivered' = NoDelivery
  /\ NoRequest
  /\ UNCHANGED <<conn, connectedUsers, rooms, sent, httpRes>>
  /\ UNCHANGED mwVars

\* ------------------------------------------------- mutation requests
\* errorHandler(err, req, res, next): the status it answers with
errorHandler(err) ==
  IF err = "P2002" THEN 400 ELSE IF err = "P2025" THEN 404 ELSE 500

\* the status a handler answers with when it does not go through: its own
\* rejections, or the exception of a data-store call handed to errorHandler
StatusOf(outcome) ==
  IF outcome \in {"invalid", "badCategory"} THEN 400
  ELSE IF outcome = "notFound" THEN 404
  ELSE errorHandler(outcome)

\* the handler answers without having called the dispatcher
Respond(op, uid, status) ==
  /\ route' = [op |-> op, userId |-> uid, ok |-> status \in {200, 201},
               status |-> status, calls |-> <<>>]
  /\ delivered' = NoDelivery

\* the handler calls a dispatcher method and then answers; an exception of
\* the call reaches the catch block, next(error) and errorHandler
CallAndRespond(op, uid, status, method, call) ==
  /\ call
  /\ LET st == IF delivered'.threw THEN errorHandler("Error") ELSE status
     IN route' = [op |-> op, userId |-> uid, ok |-> st \in {200, 201},
                  status |-> st, calls |-> <<method>>]

\* nothing but the response and the dispatcher's writes changes
HandlerFrame ==
  /\ Alive
  /\ cleanup' = NoCleanup
  /\ UNCHANGED <<conn, connectedUsers, rooms, sent, httpRes, broken, proc>>
  /\ UNCHANGED mwVars

\* a route handler stores no notification either
RouteFrame == HandlerFrame /\ NoInsert

\* router.post('/') of the task routes
TaskCreate(uid, outcome, task) ==
  /\ IF outcome = "ok"
     THEN CallAndRespond("POST /api/tasks", uid, 201, "emitTaskCreated",
                         emitTaskCreated(uid, task))
     ELSE Respond("POST /api/tasks", uid, StatusOf(outcome))
  /\ RouteFrame

\* router.put('/:id') of the task routes
TaskUpdate(uid, outcome, task) ==
  /\ IF outcome = "ok"
     THEN CallAndRespond("PUT /api/tasks/:id", uid, 200, "emitTaskUpdated",
                         emitTaskUpdated(uid, task))
     ELSE Respond("PUT /api/tasks/:id", uid, StatusOf(outcome))
  /\ RouteFrame

\* router.delete('/:id') of the task routes
TaskDelete(uid, outcome, id) ==
  /\ IF outcome = "ok"
     THEN CallAndRespond("DELETE /api/tasks/:id", uid, 200, "emitTaskDeleted",
                         emitTaskDeleted(uid, id))
     ELSE Respond("DELETE /api/tasks/:id", uid, StatusOf(outcome))
  /\ RouteFrame

\* router.patch('/bulk') of the task routes
TaskBulk(uid, outcome, tasks) ==
  /\ IF outcome = "ok"
     THEN CallAndRespond("PATCH /api/tasks/bulk", uid, 200, "emitTaskBulkUpdate",
                         emitTaskBulkUpdate(uid, tasks))
     ELSE Respond("PATCH /api/tasks/bulk", uid, StatusOf(outcome))
  /\ RouteFrame

\* router.post('/') of the category routes
CategoryCreate(uid, outcome) ==
  /\ Respond("POST /api/categories", uid,
             IF outcome = "ok" THEN 201 ELSE StatusOf(outcome))
  /\ RouteFrame

\* router.put('/:id') of the category routes
CategoryUpdate(uid, outcome) ==
  /\ Respond("PUT /api/categories/:id", uid,
             IF outcome = "ok" THEN 200 ELSE StatusOf(outcome))
  /\ RouteFrame

\* router.delete('/:id') of the category routes
CategoryDelete(uid, outcome) ==
  /\ Respond("DELETE /api/categories/:id", uid,
             IF outcome = "ok" THEN 200 ELSE StatusOf(outcome))
  /\ RouteFrame

\* variant: the event is emitted before the record is created
createNotificationEmitFirst(data, outcome, notification) ==
  /\ emitNotification(data.userId, notification)
  /\ inserted' = IF outcome = "ok" THEN notification ELSE NoRow
  /\ taskNotifications' =
       IF outcome = "ok" /\ data.relatedTaskId # Undefined
       THEN [taskNotifications EXCEPT ![data.type][data.relatedTaskId] =
               IF @ < 2 THEN @ + 1 ELSE @]
       ELSE taskNotifications
  /\ route' = [op |-> "createNotification", userId |-> data.userId,
               ok |-> outcome = "ok" /\ ~delivered'.threw, status |-> 0,
               calls |-> <<"emitNotification">>]

\* NotificationService.createNotification: prisma.notification.create settles
\* with the stored row or rejects, and a rejection is logged and thrown on.
\* status 0: it is no HTTP handler; ok: the promise resolves with the row
createNotification(data, outcome, notification) ==
  IF outcome = "ok"
  THEN /\ inserted' = notification
       /\ taskNotifications' =
            IF data.relatedTaskId # Undefined
            THEN [taskNotifications EXCEPT ![data.type][data.relatedTaskId] =
                    IF @ < 2 THEN @ + 1 ELSE @]
            ELSE taskNotifications
       /\ emitNotification(data.userId, inserted')
       /\ route' = [op |-> "createNotification", userId |-> data.userId,
                    ok |-> ~delivered'.threw, status |-> 0,
                    calls |-> <<"emitNotification">>]
  ELSE /\ inserted' = NoRow
       /\ UNCHANGED taskNotifications
       /\ route' = [op |-> "createNotification", userId |-> data.userId,
                    ok |-> FALSE, status |-> 0, calls |-> <<>>]
       /\ delivered' = NoDelivery

\* createNotification called by a caller that is not modelled further
Notify(data, outcome, notification) ==
  /\ createNotification(data, outcome, notification)
  /\ HandlerFrame
  /\ UNCHANGED scans

\* ------------------------------------------------- checkDueTasks
\* the tasks of a set in the order the data store returns them
InOrder(S) == SelectSeq(TaskOrder, LAMBDA task : task \in S)

\* notifications: { none: { type } }
NotNotified(type, S) == {task \in S : taskNotifications[type][task] = 0}

\* the lowest invocation slot not used yet takes the next call
NextScan(i) ==
  scans[i].pc = "idle" /\ \A j \in ScanIds : j < i => scans[j].pc # "idle"

\* the scan moves and nothing else does
ScanFrame ==
  /\ inserted' = NoRow
  /\ delivered' = NoDelivery
  /\ route' = NoRoute
  /\ UNCHANGED taskNotifications
  /\ HandlerFrame

\* checkDueTasks() up to the result of its first findMany: the tasks due
\* within 24 hours without a TASK_DUE notification
ScanDue(i) ==
  /\ NextScan(i)
  /\ scans' = [scans EXCEPT ![i] =
                 [pc |-> "due", todo |-> InOrder(NotNotified("TASK_DUE", DueSoon))]]
  /\ ScanFrame

\* the second findMany, once the first loop is through: the overdue tasks
\* without a TASK_OVERDUE notification
ScanOverdue(i) ==
  /\ scans[i].pc = "due" /\ scans[i].todo = <<>>
  /\ scans' = [scans EXCEPT ![i] =
                 [pc |-> "overdue",
                  todo |-> InOrder(NotNotified("TASK_OVERDUE", Overdue))]]
  /\ ScanFrame

\* one turn of either loop: await this.createNotification(...) for the next
\* task; its exception is not caught and ends the invocation
ScanNotify(i, outcome, notification) ==
  /\ scans[i].pc \in {"due", "overdue"} /\ scans[i].todo # <<>>
  /\ LET task == Head(scans[i].todo)
         type == IF scans[i].pc = "due" THEN "TASK_DUE" ELSE "TASK_OVERDUE"
     IN createNotification([userId |-> Owner(task), type |-> type,
                            relatedTaskId |-> task], outcome, notification)
  /\ scans' = [scans EXCEPT ![i] =
                 IF outcome = "ok" THEN [@ EXCEPT !.todo = Tail(@)]
                 ELSE [pc |-> "failed", todo |-> <<>>]]
  /\ HandlerFrame

\* return { dueTasksNotified, overdueTasksNotified }
ScanReturn(i) ==
  /\ scans[i].pc = "overdue" /\ scans[i].todo = <<>>
  /\ scans' = [scans EXCEPT ![i] = [pc |-> "done", todo |-> <<>>]]
  /\ ScanFrame

\* ------------------------------------------------- unregistered cleanup
\* the body of the disconnect handler, run for a socket id and a user of
\* which the registry holds no such registration (a close seen twice, or out
\* of order)
DisconnectCleanup(uid, sid) ==
  /\ Alive
  /\ ~(conn[sid] = "open" /\ userId[sid] = uid)
  /\ IF Truthy(uid)
     THEN connectedUsers' = RegistryRemove(connectedUsers, uid, sid)
     ELSE UNCHANGED connectedUsers
  /\ cleanup' = [userId |-> uid, socketId |-> sid]
  /\ delivered' = NoDelivery
  /\ route' = NoRoute
  /\ NoInsert
  /\ UNCHANGED <<conn, rooms, sent, httpRes, broken, proc>>
  /\ UNCHANGED mwVars

\* ------------------------------------------------- shutdown
\* process.on('SIGINT') and process.on('SIGTERM') up to the await of
\* prisma.$disconnect()
Signal(sig) ==
  /\ proc = "running"
  /\ proc' = "stopping"
  /\ delivered' = NoDelivery
  /\ route' = NoRoute
  /\ cleanup' = NoCleanup
  /\ NoInsert
  /\ UNCHANGED <<conn, connectedUsers, rooms, sent, httpRes, broken>>
  /\ UNCHANGED mwVars

\* process.exit(0) once prisma.$disconnect() has settled: the process ends
\* with its sockets as they are, no handler runs any more
Exit ==
  /\ proc = "stopping"
  /\ proc' = "exited"
  /\ delivered' = NoDelivery
  /\ route' = NoRoute
  /\ cleanup' = NoCleanup
  /\ NoInsert
  /\ UNCHANGED <<conn, connectedUsers, rooms, sent, httpRes, broken>>
  /\ UNCHANGED mwVars

\* ------------------------------------------------------- specifications
Headers ==
  {<<>>, <<"tok_both_u1">>, <<"Bearer", "tok_both_u1">>, <<"Bearer", "tok_id_u1">>,
   <<"Bearer", "tok_userId_u1">>, <<"Bearer", "tok_expired_u1">>}

\* handshakes of the presence and fan-out runs
CoreHandshakes ==
  {[auth |-> "tok_userId_u1", header |-> <<>>],
   [auth |-> "", header |-> <<"Bearer", "tok_userId_u2">>]}

\* handshakes of the authentication runs
AuthHandshakes ==
  {[auth |-> t, header |-> <<>>] : t \in {"tok_userId_u2", "tok_userId_u3", "garbage"}}
    \cup {[auth |-> "", header |-> h] : h \in Headers}

Establish(Faults) ==
  \/ \E s \in SocketIds, fault \in Faults : LookupReturn(s, fault)
  \/ \E s \in SocketIds : Connection(s)
  \/ \E s \in SocketIds : Disconnect(s)

Subscriptions ==
  \/ \E s \in SocketIds : SubscribeTasks(s)
  \/ \E s \in SocketIds : SubscribeCategories(s)

Dispatch ==
  \/ \E u \in ExistingUsers, p \in Payloads : Call(emitTaskCreated(u, p))
  \/ \E u \in ExistingUsers, p \in Payloads : Call(emitTaskUpdated(u, p))
  \/ \E u \in ExistingUsers, p \in Payloads : Call(emitTaskDeleted(u, p))
  \/ \E u \in ExistingUsers, p \in Payloads : Call(emitTaskBulkUpdate(u, p))
  \/ \E u \in ExistingUsers, p \in Payloads : Call(emitCategoryCreated(u, p))
  \/ \E u \in ExistingUsers, p \in Payloads : Call(emitCategoryUpdated(u, p))
  \/ \E u \in ExistingUsers, p \in Payloads : Call(emitCategoryDeleted(u, p))
  \/ \E u \in ExistingUsers, p \in Payloads : Call(emitNotification(u, p))

Next ==
  \/ \E s \in SocketIds, hs \in CoreHandshakes : Handshake(s, hs)
  \/ Establish({FALSE})
  \/ Subscriptions
  \/ Dispatch

Spec == Init /\ [][Next]_vars

NextAuth ==
  \/ \E s \in SocketIds, hs \in AuthHandshakes : Handshake(s, hs)
  \/ Establish(BOOLEAN)
  \/ \E h \in Headers, fault \in BOOLEAN : HttpRequest(h, fault)

SpecAuth == Init /\ [][NextAuth]_vars

\* requests through the task and category routes and the notification
\* service; each handler with its success and with the rejections and
\* data-store errors that tell its paths apart
Requests ==
  \/ \E u \in ExistingUsers, o \in {"ok", "badCategory", "dbError"}, p \in Payloads :
       TaskCreate(u, o, p)
  \/ \E u \in ExistingUsers, o \in {"ok", "notFound", "P2025"}, p \in Payloads :
       TaskUpdate(u, o, p)
  \/ \E u \in ExistingUsers, o \in {"ok", "notFound"}, p \in Payloads :
       TaskDelete(u, o, p)
  \/ \E u \in ExistingUsers, o \in {"ok", "invalid"}, p \in Payloads :
       TaskBulk(u, o, p)
  \/ \E u \in ExistingUsers, o \in {"ok", "invalid"} : CategoryCreate(u, o)
  \/ \E u \in ExistingUsers, o \in {"ok", "notFound"} : CategoryUpdate(u, o)
  \/ \E u \in ExistingUsers, o \in {"ok", "dbError"} : CategoryDelete(u, o)
  \/ \E u \in ExistingUsers, o \in {"ok", "dbError"}, p \in Payloads :
       Notify([userId |-> u, type |-> "SYSTEM", relatedTaskId |-> Undefined], o, p)

NextRoutes ==
  \/ \E s \in SocketIds, hs \in CoreHandshakes : Handshake(s, hs)
  \/ Establish({FALSE})
  \/ \E s \in SocketIds : SubscribeTasks(s)
  \/ \E s \in SocketIds : TransportFail(s)
  \/ Requests

SpecRoutes == Init /\ [][NextRoutes]_vars

\* the disconnect cleanup run for sockets that are not registered
NextCleanup ==
  \/ \E s \in SocketIds, hs \in CoreHandshakes : Handshake(s, hs)
  \/ Establish({FALSE})
  \/ \E u \in ExistingUsers \cup {"u3", Undefined}, s \in SocketIds :
       DisconnectCleanup(u, s)

SpecCleanup == Init /\ [][NextCleanup]_vars

\* the host process receiving a termination signal
NextShutdown ==
  \/ \E s \in SocketIds, hs \in CoreHandshakes : Handshake(s, hs)
  \/ Establish({FALSE})
  \/ \E s \in SocketIds : SubscribeTasks(s)
  \/ \E sig \in {"SIGINT", "SIGTERM"} : Signal(sig)
  \/ Exit

SpecShutdown == Init /\ [][NextShutdown]_vars

\* invocations of checkDueTasks, one after another or overlapping, while
\* users connect and disconnect
NextScans ==
  \/ \E s \in SocketIds, hs \in CoreHandshakes : Handshake(s, hs)
  \/ Establish({FALSE})
  \/ \E i \in ScanIds : ScanDue(i)
  \/ \E i \in ScanIds : ScanOverdue(i)
  \/ \E i \in ScanIds, o \in {"ok", "dbError"}, p \in Payloads : ScanNotify(i, o, p)
  \/ \E i \in ScanIds : ScanReturn(i)

SpecScans == Init /\ [][NextScans]_vars

\* ================================================================ claims
\* every user identifier a socket or a dispatcher call can carry
UserIds == ExistingUsers \cup {"u3", Undefined}

\* the live connections of a user, and the ones that have closed
LiveOf(uid) == {s \in SocketIds : conn[s] = "open" /\ userId[s] = uid}
ClosedOf(uid) == {s \in SocketIds : conn[s] = "closed" /\ userId[s] = uid}

\* C1: the registry has a key for a user exactly when the user has a live
\* connection, the key maps to exactly those connections (never to an empty
\* set), isUserConnected answers accordingly and getConnectedUsersCount is
\* the number of distinct users with a live connection.
C1_PresenceRegistry ==
  /\ \A u \in UserIds :
       /\ (u \in DOMAIN connectedUsers) <=> (LiveOf(u) # {})
       /\ isUserConnected(u) <=> (LiveOf(u) # {})
  /\ \A u \in DOMAIN connectedUsers :
       /\ connectedUsers[u] # {}
       /\ connectedUsers[u] = LiveOf(u)
  /\ getConnectedUsersCount = Cardinality({u \in UserIds : LiveOf(u) # {}})

\* one user has two live connections, or one user has come and gone while
\* another is connected
C1_Witness ==
  \/ \E u \in ExistingUsers : Cardinality(LiveOf(u)) >= 2
  \/ \E u, v \in ExistingUsers :
       /\ u # v
       /\ ClosedOf(u) # {} /\ LiveOf(u) = {}
       /\ LiveOf(v) # {}

\* C2: once every connection a user ever had has disconnected, the user has no
\* presence: isUserConnected is false and the registry keeps nothing of it.
C2_ZeroPresenceAfterAllClosed ==
  \A u \in UserIds :
    (ClosedOf(u) # {} /\ LiveOf(u) = {}) =>
       /\ ~isUserConnected(u)
       /\ \A k \in DOMAIN connectedUsers :
            k # u /\ connectedUsers[k] \cap ClosedOf(u) = {}

\* N = 2: both connections of one user have closed
C2_Witness ==
  \E u \in ExistingUsers : Cardinality(ClosedOf(u)) >= 2 /\ LiveOf(u) = {}

\* ---- dispatcher steps, as the claims speak of them
\* the step is a dispatcher call
EmitStep == delivered' # delivered /\ delivered' # NoDelivery
\* the latest step was a dispatcher call
Emitted == delivered # NoDelivery
\* the topic family an event kind belongs to
FamilyOf(event) ==
  IF event \in TaskEvents THEN "tasks"
  ELSE IF event \in CategoryEvents THEN "categories" ELSE "user"
\* the client message that subscribes to a family
MessageOf(family) ==
  IF family = "tasks" THEN "subscribe:tasks" ELSE "subscribe:categories"
\* socket s is written the payload of this step's call, once
GetsIt(s) == delivered'.writes[s] = 1 /\ delivered'.payload.val = delivered'.arg
\* socket s is written nothing in this step
GetsNothing(s) == delivered'.writes[s] = 0

\* C3: a dispatcher call for user A reaches every connection in A's topic of
\* the event's family and no connection authenticated as another user,
\* whatever that connection subscribed to.
C3_TopicIsolation ==
  [][EmitStep =>
       /\ \A s \in SocketIds :
            <<TopicName(FamilyOf(delivered'.event), delivered'.userId), s>> \in rooms
              => GetsIt(s)
       /\ \A s \in SocketIds :
            (Truthy(userId[s]) /\ userId[s] # delivered'.userId) => GetsNothing(s)
    ]_vars

\* a task event went to A's subscribed connection and not to B's, which is
\* subscribed to B's task and category topics
C3_Witness ==
  \E s, t \in SocketIds :
    /\ conn[s] = "open" /\ conn[t] = "open"
    /\ Truthy(userId[s]) /\ Truthy(userId[t]) /\ userId[s] # userId[t]
    /\ <<TopicName("tasks", userId[s]), s>> \in rooms
    /\ <<TopicName("tasks", userId[t]), t>> \in rooms
    /\ sent[t]["subscribe:categories"] > 0
    /\ delivered.event = "task:created" /\ delivered.userId = userId[s]
    /\ delivered.writes[s] = 1 /\ delivered.writes[t] = 0

\* C4: a dispatcher call writes no task event to a connection that never sent
\* subscribe:tasks and no category event to one that never sent
\* subscribe:categories, and it writes a notification to every live
\* connection of the user it is emitted for.
C4_OptInTopics ==
  [][EmitStep =>
       \A s \in SocketIds :
         /\ (FamilyOf(delivered'.event) = "tasks" /\ sent[s]["subscribe:tasks"] = 0)
              => GetsNothing(s)
         /\ (FamilyOf(delivered'.event) = "categories"
               /\ sent[s]["subscribe:categories"] = 0) => GetsNothing(s)
         /\ (delivered'.event = "notification" /\ s \in LiveOf(delivered'.userId))
              => GetsIt(s)
    ]_vars

\* a task event for a user went to the user's subscribed connection and not to
\* the user's other live connection, which never subscribed
C4_Witness ==
  \E s, t \in SocketIds :
    /\ conn[s] = "open" /\ conn[t] = "open"
    /\ Truthy(userId[s]) /\ userId[s] = userId[t]
    /\ sent[s]["subscribe:tasks"] = 0 /\ sent[s]["subscribe:categories"] = 0
    /\ FamilyOf(delivered.event) = "tasks" /\ delivered.userId = userId[s]
    /\ delivered.writes[t] = 1 /\ delivered.writes[s] = 0

\* C8: when two live connections of one user have both subscribed to a
\* family, one dispatcher call for that user and family reaches both; a
\* notification reaches both without any subscription.
C8_FanOut ==
  [][EmitStep =>
       \A s, t \in LiveOf(delivered'.userId) :
         (/\ s # t
          /\ Truthy(delivered'.userId)
          /\ \/ FamilyOf(delivered'.event) = "user"
             \/ /\ sent[s][MessageOf(FamilyOf(delivered'.event))] > 0
                /\ sent[t][MessageOf(FamilyOf(delivered'.event))] > 0)
           => GetsIt(s) /\ GetsIt(t)
    ]_vars

\* one emitTaskUpdated call wrote its packet to both connections of a user
C8_Witness ==
  \E s, t \in SocketIds :
    /\ s # t /\ userId[s] = userId[t]
    /\ sent[s]["subscribe:tasks"] > 0 /\ sent[t]["subscribe:tasks"] > 0
    /\ delivered.event = "task:updated"
    /\ delivered.writes[s] = 1 /\ delivered.writes[t] = 1

\* the rooms a live connection is in after its subscribe messages
RoomsAfter(s) ==
  {TopicName("user", userId[s])}
    \cup (IF sent[s]["subscribe:tasks"] > 0
          THEN {TopicName("tasks", userId[s])} ELSE {})
    \cup (IF sent[s]["subscribe:categories"] > 0
          THEN {TopicName("categories", userId[s])} ELSE {})

\* C9: a live connection is in exactly the rooms one send of each of its
\* subscribe messages gives, sending a message again changes no membership,
\* and a dispatcher call writes a connection that subscribed more than once
\* exactly one packet (no connection ever more than one).
C9_IdempotentSubscribe ==
  /\ [](\A s \in SocketIds : conn[s] = "open" => RoomsOf(rooms, s) = RoomsAfter(s))
  /\ [][\A s \in SocketIds :
          /\ \A m \in ClientMessages :
               (sent[s][m] > 0 /\ sent'[s][m] > sent[s][m]) => rooms' = rooms
          /\ EmitStep => (GetsNothing(s) \/ GetsIt(s))
          /\ (/\ EmitStep
              /\ conn[s] = "open" /\ userId[s] = delivered'.userId
              /\ FamilyOf(delivered'.event) # "user"
              /\ sent[s][MessageOf(FamilyOf(delivered'.event))] > 1) => GetsIt(s)
       ]_vars

\* a connection that sent subscribe:tasks more than once is written one packet
\* of a task event
C9_Witness ==
  \E s \in SocketIds :
    /\ conn[s] = "open"
    /\ sent[s]["subscribe:tasks"] = 2
    /\ FamilyOf(delivered.event) = "tasks"
    /\ delivered.writes[s] = 1

\* C10: when one of two live connections of a user disconnects, the user is
\* still connected, the other connection stays registered and keeps its
\* rooms, and later dispatcher calls to a topic it subscribed to reach it.
C10_SiblingUnaffected ==
  [][\A s \in SocketIds :
       /\ (conn[s] = "open" /\ conn'[s] = "closed") =>
            \A t \in LiveOf(userId[s]) \ {s} :
              /\ isUserConnected(userId[s])'
              /\ t \in connectedUsers'[userId[t]]
              /\ RoomsOf(rooms', t) = RoomsOf(rooms, t)
       /\ (/\ EmitStep
           /\ conn[s] = "open" /\ userId[s] = delivered'.userId
           /\ ClosedOf(userId[s]) # {}
           /\ \/ FamilyOf(delivered'.event) = "user"
              \/ sent[s][MessageOf(FamilyOf(delivered'.event))] > 0) => GetsIt(s)
    ]_vars

\* a task event is written to the remaining connection of a user whose other
\* connection has closed
C10_Witness ==
  \E s, t \in SocketIds :
    /\ s # t /\ Truthy(userId[s]) /\ userId[s] = userId[t]
    /\ conn[s] = "open" /\ conn[t] = "closed"
    /\ isUserConnected(userId[s])
    /\ FamilyOf(delivered.event) = "tasks" /\ delivered.userId = userId[s]
    /\ delivered.writes[s] = 1 /\ delivered.writes[t] = 0

\* socket s is in no room and in no set of the registry
Unregistered(s) ==
  /\ RoomsOf(rooms, s) = {}
  /\ \A u \in DOMAIN connectedUsers : s \notin connectedUsers[u]

\* C5: a handshake the middleware refuses changes nothing: the step that
\* refuses leaves the registry, the user count and every room as they were,
\* and the refused socket never gets its connection handler run, never joins a
\* room and never enters the registry.
C5_RefusedHandshakeNoEffect ==
  /\ [](\A s \in SocketIds : Refused(s) => conn[s] = "none" /\ Unregistered(s))
  /\ [][\A s \in SocketIds :
          (~Refused(s) /\ Refused(s)') =>
             /\ connectedUsers' = connectedUsers
             /\ getConnectedUsersCount' = getConnectedUsersCount
             /\ rooms' = rooms
             /\ conn' = conn
       ]_vars

\* a handshake was refused after its lookup while a user was connected
C5_Witness ==
  \E s, t \in SocketIds :
    /\ pc[s] = "done" /\ Refused(s) /\ decoded[s] # Undefined
    /\ conn[t] = "open" /\ getConnectedUsersCount = 1

\* the reasons the middleware refuses with
Reasons == {ErrNoToken, ErrNoUser, ErrInvalid}

\* the handshake carries a token that verifies and names an existing user,
\* and the lookup of that user did not fail
Acceptable(s) ==
  LET token == WsToken(handshake[s])
  IN /\ Truthy(token)
     /\ JwtVerify(token).ok
     /\ JwtVerify(token).userId \in ExistingUsers
     /\ ~dbFault[s]

\* C6: the middleware calls next exactly once per handshake: without an error
\* exactly when the token is present, verifies and names a user the lookup
\* finds, and with an Error carrying a reason in every other case; it never
\* finishes without having called next.
C6_NextExactlyOnce ==
  \A s \in SocketIds :
    /\ Len(nextCalls[s]) <= 1
    /\ pc[s] = "done" =>
         /\ Len(nextCalls[s]) = 1
         /\ (nextCalls[s][1] = "ok") <=> Acceptable(s)
         /\ (nextCalls[s][1] # "ok") => nextCalls[s][1] \in Reasons
    /\ pc[s] # "done" => nextCalls[s] = <<>>

\* one handshake was admitted and another refused because the lookup threw
C6_Witness ==
  \E s, t \in SocketIds :
    /\ nextCalls[s] = <<"ok">>
    /\ pc[t] = "done" /\ dbFault[t] /\ nextCalls[t] = <<ErrInvalid>>

\* C7: a token the HTTP authenticate middleware accepts for user U is accepted
\* by the handshake middleware too and gives socket.userId = U (the lookup of
\* the handshake not failing).
C7_SharedCredentialFormat ==
  \A s \in SocketIds :
    (/\ pc[s] = "done"
     /\ ~dbFault[s]
     /\ httpRes.status = 200
     /\ WsToken(handshake[s]) = httpRes.token)
      => /\ nextCalls[s] = <<"ok">>
         /\ userId[s] = httpRes.user

\* ---- topic membership and delivery over the life of a connection
\* C11: every room a connection is a member of is user:X, tasks:X or
\* categories:X with X the connection's own socket.userId; socket.userId is
\* assigned only by the step that completes the handshake lookup and never
\* changes once the middleware is done, so no client message moves a
\* connection into another user's topic.
C11_OwnTopicsOnly ==
  /\ [](\A m \in rooms :
          /\ m[1][1] \in {"user", "tasks", "categories"}
          /\ m[1][2] = userId[m[2]])
  /\ [][\A s \in SocketIds :
          /\ pc[s] = "done" => userId'[s] = userId[s]
          /\ userId'[s] # userId[s] =>
               (pc[s] = "await" /\ pc'[s] = "done" /\ conn[s] = "none")
       ]_vars

\* two connections of different users are each in all three of their rooms
C11_Witness ==
  \E s, t \in SocketIds :
    /\ conn[s] = "open" /\ conn[t] = "open"
    /\ Truthy(userId[s]) /\ Truthy(userId[t]) /\ userId[s] # userId[t]
    /\ Cardinality(RoomsOf(rooms, s)) = 3
    /\ Cardinality(RoomsOf(rooms, t)) = 3

\* C12: a connection that has disconnected is a member of no room, and a
\* dispatcher call made after its disconnect writes nothing to it; the
\* disconnect event is the only cleanup there is.
C12_ConnectionScoped ==
  \A s \in SocketIds :
    conn[s] = "closed" =>
      /\ RoomsOf(rooms, s) = {}
      /\ delivered.writes[s] = 0

\* a notification for a user is written to the user's live connection and not
\* to the one that has closed
C12_Witness ==
  \E s, t \in SocketIds :
    /\ conn[s] = "open" /\ conn[t] = "closed"
    /\ Truthy(userId[t]) /\ userId[s] = userId[t]
    /\ delivered.event = "notification" /\ delivered.userId = userId[t]
    /\ delivered.writes[s] = 1 /\ delivered.writes[t] = 0

\* C13: a dispatcher call writes its packet to exactly the members of one
\* room: tasks:<userId> for the four task events, categories:<userId> for the
\* three category events, user:<userId> for a notification; the packet carries
\* the argument as given, wrapped as {id} for the two deletions.
C13_SingleTargetTopic ==
  Emitted =>
    /\ delivered.event \in TaskEvents \cup CategoryEvents \cup NotificationEvents
    /\ \A s \in SocketIds :
         delivered.writes[s] =
           IF <<TopicName(FamilyOf(delivered.event), delivered.userId), s>> \in rooms
           THEN 1 ELSE 0
    /\ delivered.payload.val = delivered.arg
    /\ delivered.payload.shape =
         IF delivered.event \in {"task:deleted", "category:deleted"}
         THEN "id" ELSE "raw"

\* a category deletion went as {id} to the connection in the categories room
\* and not to the user's other connection, which is in the tasks room
C13_Witness ==
  \E s, t \in SocketIds :
    /\ userId[s] = userId[t] /\ delivered.userId = userId[s]
    /\ <<TopicName("categories", userId[s]), s>> \in rooms
    /\ <<TopicName("categories", userId[t]), t>> \notin rooms
    /\ <<TopicName("tasks", userId[t]), t>> \in rooms
    /\ delivered.event = "category:deleted" /\ delivered.payload.shape = "id"
    /\ delivered.writes[s] = 1 /\ delivered.writes[t] = 0

\* C14: packets are written only by a dispatcher call and only to the members
\* the room has at that moment, each at most once: a call for a room without
\* members writes nothing and leaves no trace in the service's state, and a
\* step that changes room membership (a later join) writes nothing.
C14_AtMostOnceNoReplay ==
  [][/\ EmitStep =>
          /\ \A s \in SocketIds :
               /\ delivered'.writes[s] \in {0, 1}
               /\ delivered'.writes[s] = 1 =>
                    <<TopicName(FamilyOf(delivered'.event), delivered'.userId), s>>
                       \in rooms
          /\ <<conn, connectedUsers, rooms, sent>>' = <<conn, connectedUsers, rooms, sent>>
     /\ (rooms' # rooms \/ sent' # sent \/ conn' # conn) => delivered' = NoDelivery
    ]_vars

\* a task event was emitted for a user whose only live connection had not
\* subscribed: nobody was written to
C14_Witness ==
  \E s \in SocketIds :
    /\ conn[s] = "open" /\ delivered.userId = userId[s]
    /\ FamilyOf(delivered.event) = "tasks"
    /\ Members(rooms, TopicName("tasks", delivered.userId)) = {}
    /\ \A t \in SocketIds : delivered.writes[t] = 0

\* C19: from its connection handler to its disconnect a connection is a
\* member of user:<its userId>, whatever its client sent, and so is written
\* every notification emitted for that user in between; before and after it
\* is not a member.
C19_AutoJoinUserRoom ==
  \A s \in SocketIds :
    /\ conn[s] = "open" =>
         /\ <<TopicName("user", userId[s]), s>> \in rooms
         /\ (delivered.event = "notification" /\ delivered.userId = userId[s]) =>
              (delivered.writes[s] = 1 /\ delivered.payload.val = delivered.arg)
    /\ conn[s] # "open" => <<TopicName("user", userId[s]), s>> \notin rooms

\* a connection whose client never sent a message is written a notification
\* of its user, a connection of another user is not
C19_Witness ==
  \E s, t \in SocketIds :
    /\ conn[s] = "open" /\ conn[t] = "open" /\ userId[s] # userId[t]
    /\ \A m \in ClientMessages : sent[s][m] = 0
    /\ delivered.event = "notification" /\ delivered.userId = userId[s]
    /\ delivered.writes[s] = 1 /\ delivered.writes[t] = 0

\* the set the registry holds for a user, empty without an entry
SetOf(reg, uid) == IF uid \in DOMAIN reg THEN reg[uid] ELSE {}

\* C20: under every interleaving of handshakes (suspended on the lookup or
\* not), connects and disconnects no registry update is lost: a connect adds
\* exactly its socket to its user's set, a disconnect removes exactly its
\* socket, no other step touches the registry, and so each user's set is the
\* connections that connected and have not disconnected.
C20_RegistryAtomic ==
  /\ [](\A u \in UserIds : SetOf(connectedUsers, u) = LiveOf(u))
  /\ [][\A s \in SocketIds :
          /\ (conn[s] = "none" /\ conn'[s] = "open") =>
               \A u \in UserIds :
                 SetOf(connectedUsers', u) =
                   SetOf(connectedUsers, u) \cup (IF u = userId[s] THEN {s} ELSE {})
          /\ (conn[s] = "open" /\ conn'[s] = "closed") =>
               \A u \in UserIds :
                 SetOf(connectedUsers', u) =
                   SetOf(connectedUsers, u) \ (IF u = userId[s] THEN {s} ELSE {})
          /\ conn' = conn => connectedUsers' = connectedUsers
       ]_vars

\* a later connection of the user has connected and disconnected while an
\* earlier handshake of the same user is still suspended on its lookup
C20_Witness ==
  \E s, t \in SocketIds :
    /\ s < t
    /\ pc[s] = "await" /\ decoded[s] = userId[t]
    /\ conn[t] = "closed"

\* ---- callers of the dispatcher
\* the dispatcher method a completed mutation is to call
MethodOf(op) ==
  CASE op = "POST /api/tasks" -> "emitTaskCreated"
    [] op = "PUT /api/tasks/:id" -> "emitTaskUpdated"
    [] op = "DELETE /api/tasks/:id" -> "emitTaskDeleted"
    [] op = "PATCH /api/tasks/bulk" -> "emitTaskBulkUpdate"
    [] op = "POST /api/categories" -> "emitCategoryCreated"
    [] op = "PUT /api/categories/:id" -> "emitCategoryUpdated"
    [] op = "DELETE /api/categories/:id" -> "emitCategoryDeleted"
    [] OTHER -> "emitNotification"

\* the event that method sends
EventOf(method) ==
  CASE method = "emitTaskCreated" -> "task:created"
    [] method = "emitTaskUpdated" -> "task:updated"
    [] method = "emitTaskDeleted" -> "task:deleted"
    [] method = "emitTaskBulkUpdate" -> "tasks:bulk_updated"
    [] method = "emitCategoryCreated" -> "category:created"
    [] method = "emitCategoryUpdated" -> "category:updated"
    [] method = "emitCategoryDeleted" -> "category:deleted"
    [] OTHER -> "notification"

\* the answer of a request that went through
SuccessStatus(op) ==
  IF op \in {"POST /api/tasks", "POST /api/categories"} THEN 201
  ELSE IF op = "createNotification" THEN 0 ELSE 200

\* the latest step handled a mutation request
Requested == route # NoRoute

\* C15: when the write to one member of the target room fails during a
\* dispatcher call, every other member of the room is still written the
\* packet, the call throws nothing, and the caller (a task route handler or
\* createNotification) completes with the answer of a successful request.
C15_DeliveryFailureIsolated ==
  (Requested /\ route.calls # <<>>) =>
    /\ \A s \in Members(rooms, TopicName(FamilyOf(delivered.event), delivered.userId))
                   \ broken :
         delivered.writes[s] = 1
    /\ ~delivered.threw
    /\ route.ok
    /\ route.status = SuccessStatus(route.op)

\* a task was created while one of the user's two subscribed connections had
\* a failed transport: the other was written the event and the answer is 201
C15_Witness ==
  \E s, t \in SocketIds :
    /\ {s, t} \subseteq Members(rooms, TopicName("tasks", route.userId))
    /\ s \in broken /\ t \notin broken
    /\ route.op = "POST /api/tasks" /\ route.status = 201
    /\ delivered.event = "task:created"
    /\ delivered.writes[s] = 0 /\ delivered.writes[t] = 1

\* C16: a mutation request that succeeds has called exactly one dispatcher
\* method, the one of its kind (the bulk method for a bulk update), for the
\* requesting user and with the result at hand; one that fails or is rejected
\* has called none.
C16_OneBroadcastPerMutation ==
  Requested =>
    /\ route.ok =>
         /\ route.calls = <<MethodOf(route.op)>>
         /\ delivered.event = EventOf(MethodOf(route.op))
         /\ delivered.userId = route.userId
         /\ delivered.arg \in Payloads
    /\ ~route.ok => (route.calls = <<>> /\ delivered = NoDelivery)

\* C17: when the host process has exited after SIGINT or SIGTERM, no
\* connection is left that has not gone through its disconnect cleanup and
\* the registry is empty.
C17_ShutdownClosesConnections ==
  proc = "exited" =>
    /\ \A s \in SocketIds : conn[s] # "open"
    /\ connectedUsers = EmptyMap
    /\ rooms = {}

\* C18: the disconnect cleanup run for a socket id that is not in its user's
\* set, or for a user without an entry, leaves the registry as it was: no
\* other socket's id is removed and no user with a live connection loses its
\* entry.
C18_IdempotentRemoval ==
  [][cleanup' # NoCleanup =>
       /\ connectedUsers' = connectedUsers
       /\ \A u \in UserIds : SetOf(connectedUsers', u) = LiveOf(u)'
       /\ \A u \in UserIds : LiveOf(u) # {} => isUserConnected(u)'
    ]_vars

\* the cleanup ran for a closed socket of a user whose other connection is
\* live and still registered
C18_Witness ==
  \E t \in SocketIds :
    /\ cleanup.userId = userId[t] /\ Truthy(userId[t])
    /\ cleanup.socketId # t /\ conn[cleanup.socketId] = "closed"
    /\ conn[t] = "open"
    /\ connectedUsers[userId[t]] = {t}

\* ---- the notification service
\* C21: over all invocations of checkDueTasks, one after another or
\* overlapping, no task gets more than one TASK_DUE and more than one
\* TASK_OVERDUE notification.
C21_NoDuplicateDueNotifications ==
  \A type \in DueTypes, task \in Tasks : taskNotifications[type][task] <= 1

\* C22: a createNotification call that goes through has stored the
\* notification and then called emitNotification exactly once, for
\* data.userId and with the stored row, which is written to the live members
\* of user:<data.userId>; a call whose store fails has emitted nothing and
\* throws the error on to its caller.
C22_NotifyAfterPersist ==
  /\ route.op = "createNotification" =>
       /\ route.ok =>
            /\ inserted # NoRow
            /\ route.calls = <<"emitNotification">>
            /\ delivered.event = "notification"
            /\ delivered.userId = route.userId
            /\ delivered.arg = inserted
            /\ delivered.payload = [shape |-> "raw", val |-> inserted]
            /\ \A s \in SocketIds :
                 delivered.writes[s] =
                   IF s \in Members(rooms, TopicName("user", route.userId)) \ broken
                   THEN 1 ELSE 0
       /\ ~route.ok =>
            /\ inserted = NoRow
            /\ route.calls = <<>>
            /\ delivered = NoDelivery
  /\ delivered.event = "notification" =>
       (route.op = "createNotification" /\ inserted = delivered.arg)

\* a notification was stored and then written to a connection of its user
C22_Witness ==
  \E s \in SocketIds :
    /\ route.op = "createNotification" /\ route.ok
    /\ inserted \in Payloads /\ delivered.arg = inserted
    /\ conn[s] = "open" /\ userId[s] = route.userId
    /\ delivered.writes[s] = 1
====
